---- MODULE Spec2Model ----
(***************************************************************************)
(* Onboarding pack generator: repository fetcher (repo_fetcher.py),        *)
(* summarizer (ai_summarizer.py), document assembler (html_builder.py)     *)
(* and the Streamlit callbacks that sequence them (app.py).                *)
(*                                                                         *)
(* Strings that the code takes apart (paths, URLs' path component,         *)
(* contents, summary texts) are sequences of one-character strings.        *)
(* A Python dict is a sequence of <<key, value>> pairs with pairwise       *)
(* distinct keys, in insertion order.  An optional value (None or a value) *)
(* is a record [some, val].                                                *)
(***************************************************************************)
EXTENDS Integers, Sequences, FiniteSets, TLC

VARIABLES
    markdown_files,   \* st.session_state["markdown_files"]
    image_files,      \* st.session_state["image_files"]
    repo_meta,        \* st.session_state["repo_meta"]
    summaries,        \* st.session_state["summaries"]
    fetch_error,      \* st.session_state["fetch_error"]
    summary_error,    \* st.session_state["summary_error"]
    html_content,     \* st.session_state["html_content"]
    pdf_content,      \* st.session_state["pdf_content"]
    last,             \* history: the callback that ran last, how it ended, what it sent and wrote
    fetch_call,       \* one call of fetch_repository_docs: its argument, the network, its outcome
    sm,               \* the locals of one running call of summarize_markdown_files
    render_call       \* calls of generate_onboarding_html on one set of arguments

vars == <<markdown_files, image_files, repo_meta, summaries, fetch_error, summary_error,
          html_content, pdf_content, last, fetch_call, sm, render_call>>

session_vars == <<markdown_files, image_files, repo_meta, summaries, fetch_error,
                  summary_error, html_content, pdf_content, last>>

-----------------------------------------------------------------------------
(* Python strings, as sequences of characters *)

UpperCase == <<"A","B","C","D","E","F","G","H","I","J","K","L","M",
               "N","O","P","Q","R","S","T","U","V","W","X","Y","Z">>
LowerCase == <<"a","b","c","d","e","f","g","h","i","j","k","l","m",
               "n","o","p","q","r","s","t","u","v","w","x","y","z">>

LowerChar(c) ==
    IF \E i \in DOMAIN UpperCase : UpperCase[i] = c
    THEN LowerCase[CHOOSE i \in DOMAIN UpperCase : UpperCase[i] = c]
    ELSE c

\* str.lower()
Lower(s) == [i \in 1..Len(s) |-> LowerChar(s[i])]

\* str.startswith(prefix)
StartsWith(s, prefix) ==
    /\ Len(prefix) <= Len(s)
    /\ SubSeq(s, 1, Len(prefix)) = prefix

\* str.endswith(suffix)
EndsWith(s, suffix) ==
    /\ Len(suffix) <= Len(s)
    /\ SubSeq(s, Len(s) - Len(suffix) + 1, Len(s)) = suffix

\* str.endswith(tuple of suffixes)
EndsWithAny(s, suffixes) == \E k \in DOMAIN suffixes : EndsWith(s, suffixes[k])

\* sub in s
Contains(s, sub) ==
    \E i \in 0..(Len(s) - Len(sub)) : SubSeq(s, i + 1, i + Len(sub)) = sub

\* s.rfind("/") + 1: the index of the last "/", 0 when there is none
LastSlash(s) ==
    IF \E i \in 1..Len(s) : s[i] = "/"
    THEN CHOOSE i \in 1..Len(s) : s[i] = "/" /\ \A j \in (i+1)..Len(s) : s[j] # "/"
    ELSE 0

RECURSIVE RStripChars(_, _)
RStripChars(s, chars) ==
    IF Len(s) > 0 /\ s[Len(s)] \in chars
    THEN RStripChars(SubSeq(s, 1, Len(s) - 1), chars)
    ELSE s

RECURSIVE LStripChars(_, _)
LStripChars(s, chars) ==
    IF Len(s) > 0 /\ s[1] \in chars
    THEN LStripChars(Tail(s), chars)
    ELSE s

\* str.strip(chars)
StripChars(s, chars) == LStripChars(RStripChars(s, chars), chars)

WhiteSpace == {" ", "\n", "\t"}

\* str.strip()
Strip(s) == StripChars(s, WhiteSpace)

\* os.path.dirname (posixpath)
dirname(p) ==
    LET i    == LastSlash(p)
        head == SubSeq(p, 1, i)
    IN  IF head # <<>> /\ \E k \in 1..Len(head) : head[k] # "/"
        THEN RStripChars(head, {"/"})
        ELSE head

\* os.path.basename (posixpath)
basename(p) == SubSeq(p, LastSlash(p) + 1, Len(p))

\* str.split(sep) for a one-character separator: always at least one part
RECURSIVE SplitOn(_, _)
SplitOn(s, sep) ==
    IF \E i \in 1..Len(s) : s[i] = sep
    THEN LET i == CHOOSE k \in 1..Len(s) : s[k] = sep /\ \A j \in 1..(k-1) : s[j] # sep
         IN  <<SubSeq(s, 1, i - 1)>> \o SplitOn(SubSeq(s, i + 1, Len(s)), sep)
    ELSE <<s>>

-----------------------------------------------------------------------------
(* Python values: None, dicts, lists *)

None == [some |-> FALSE, val |-> <<>>]
Some(v) == [some |-> TRUE, val |-> v]

\* the truth value Python gives an optional dict, list or string
Truthy(o) == o.some /\ o.val # <<>>

DictKeys(d) == {d[i][1] : i \in DOMAIN d}

HasKey(d, k) == \E i \in DOMAIN d : d[i][1] = k

\* d[k], for a key that is present
DictGet(d, k) == d[CHOOSE i \in DOMAIN d : d[i][1] = k][2]

\* d[k] = v: a present key keeps its position, a new key goes last
DictSet(d, k, v) ==
    IF HasKey(d, k)
    THEN [i \in DOMAIN d |-> IF d[i][1] = k THEN <<k, v>> ELSE d[i]]
    ELSE Append(d, <<k, v>>)

\* the sequences over S of length at most n
SeqsUpTo(S, n) == UNION {[1..k -> S] : k \in 0..n}

\* those of them without a repeated element
DistinctSeqsUpTo(S, n) ==
    {s \in SeqsUpTo(S, n) : \A i, j \in DOMAIN s : i # j => s[i] # s[j]}

-----------------------------------------------------------------------------
(* The strings of the model *)

DotMd == <<".", "m", "d">>

SUPPORTED_IMAGE_EXTENSIONS ==
    << <<".", "p", "n", "g">>, <<".", "j", "p", "g">>, <<".", "j", "p", "e", "g">>,
       <<".", "g", "i", "f">>, <<".", "s", "v", "g">> >>

P_root_md  == <<"a", ".", "m", "d">>                       \* a.md
P_upper_md == <<"d", "/", "B", ".", "M", "D">>             \* d/B.MD
P_dir_md   == <<"d", "/", "c", ".", "m", "d">>             \* d/c.md (a file, or a directory of that name)
P_d2_png   == <<"d", "2", "/", "x", ".", "p", "n", "g">>   \* d2/x.png
P_d_png    == <<"d", "/", "y", ".", "p", "n", "g">>        \* d/y.png
P_e_svg    == <<"e", "/", "z", ".", "S", "V", "G">>        \* e/z.SVG
P_txt      == <<"n", ".", "t", "x", "t">>                  \* n.txt

main == <<"m", "a", "i", "n">>
dev  == <<"d", "e", "v">>

-----------------------------------------------------------------------------
(* repo_fetcher.py *)

InvalidUrlMessage == "Invalid GitHub URL. Expected format: https://github.com/owner/repo"
HttpErrorMessage  == "requests.exceptions.HTTPError"
ConnectionMessage == "requests.exceptions.ConnectionError"

\* parse_repo_url as it would be without the strip("/")
parse_repo_url_NoStrip(url_path) ==
    LET parts == SplitOn(url_path, "/")
    IN  IF Len(parts) < 2
        THEN [raised |-> TRUE,  owner |-> <<>>, repo |-> <<>>]
        ELSE [raised |-> FALSE, owner |-> parts[1], repo |-> parts[2]]

\* parse_repo_url, on the path component urlparse gives: [raised, owner, repo]
parse_repo_url(url_path) ==
    LET parts == SplitOn(StripChars(url_path, {"/"}), "/")
    IN  IF Len(parts) < 2
        THEN [raised |-> TRUE,  owner |-> <<>>, repo |-> <<>>]
        ELSE [raised |-> FALSE, owner |-> parts[1], repo |-> parts[2]]

\* get_repo_default_branch, given the response to its one request
get_repo_default_branch(resp) ==
    IF resp.kind # "ok"
    THEN [raised |-> TRUE, error |-> HttpErrorMessage, branch |-> <<>>]
    ELSE [raised |-> FALSE, error |-> "",
          branch |-> IF resp.has_default THEN resp.default_branch ELSE main]

\* get_repo_tree, given the response to its one request
get_repo_tree(resp) ==
    IF resp.kind # "ok"
    THEN [raised |-> TRUE, error |-> HttpErrorMessage, tree |-> <<>>]
    ELSE [raised |-> FALSE, error |-> "", tree |-> resp.tree]

\* download_raw_file, given the response to its one request: the text or None
download_raw_file(resp) ==
    IF resp.status = 200 THEN Some(resp.text) ELSE None

\* the test the fetcher makes on what download_raw_file returned
ContentKept(content) == Truthy(content)

NetCall(op, path, kind, status, text) ==
    [op |-> op, path |-> path, kind |-> kind, status |-> status, text |-> text]

\* the loop over the tree of fetch_repository_docs, from item i on
RECURSIVE FetchItems(_, _, _, _)
FetchItems(tree, i, raw, acc) ==
    IF i > Len(tree) \/ acc.raised THEN acc
    ELSE
    LET item == tree[i]
        path == Lower(item.path)
        original_path == item.path
        isMd == EndsWith(path, DotMd)
        resp == raw[original_path]
        afterMd ==
            IF ~isMd THEN acc
            ELSE IF resp.kind = "raise"
            THEN [acc EXCEPT !.raised = TRUE, !.error = ConnectionMessage,
                             !.calls = Append(@, NetCall("raw", original_path, "raise", 0, <<>>))]
            ELSE LET content == download_raw_file(resp)
                     logged  == [acc EXCEPT !.calls = Append(@,
                                    NetCall("raw", original_path, "ok", resp.status, resp.text))]
                 IN  IF ContentKept(content)
                     THEN [logged EXCEPT !.markdown_files = DictSet(@, original_path, content.val)]
                     ELSE logged
        afterImg ==
            IF ~afterMd.raised /\ EndsWithAny(path, SUPPORTED_IMAGE_EXTENSIONS)
            THEN [afterMd EXCEPT !.image_files = Append(@, original_path)]
            ELSE afterMd
    IN  IF item.type # "blob"
        THEN FetchItems(tree, i + 1, raw, acc)
        ELSE FetchItems(tree, i + 1, raw, afterImg)

FetchFailed(msg, calls) ==
    [raised |-> TRUE, error |-> msg, markdown_files |-> <<>>, image_files |-> <<>>,
     branch |-> <<>>, repo |-> <<>>, owner |-> <<>>, calls |-> calls]

\* fetch_repository_docs(repo_url), net being what the network answers:
\* net.branch, net.tree, and net.raw[path] for each raw download
fetch_repository_docs(url_path, net) ==
    LET parsed == parse_repo_url(url_path)
        br     == get_repo_default_branch(net.branch)
        brCall == NetCall("default_branch", <<>>, net.branch.kind, 0, <<>>)
        tr     == get_repo_tree(net.tree)
        trCall == NetCall("tree", <<>>, net.tree.kind, 0, <<>>)
        start  == [raised |-> FALSE, error |-> "", markdown_files |-> <<>>,
                   image_files |-> <<>>, branch |-> br.branch, repo |-> parsed.repo,
                   owner |-> parsed.owner, calls |-> <<brCall, trCall>>]
        done   == FetchItems(tr.tree, 1, net.raw, start)
    IN  IF parsed.raised THEN FetchFailed(InvalidUrlMessage, <<>>)
        ELSE IF br.raised THEN FetchFailed(br.error, <<brCall>>)
        ELSE IF tr.raised THEN FetchFailed(tr.error, <<brCall, trCall>>)
        ELSE IF done.raised THEN FetchFailed(done.error, done.calls)
        ELSE done

-----------------------------------------------------------------------------
(* ai_summarizer.py *)

TruncationBudget == 3000
\* a retry loop that allows one attempt more
max_retries_OneMore == 2 + 1

max_retries == 2
wait_time == 30

\* the marker appended to content that was cut
TruncationMarker ==
    <<"\n","\n","[",".",".","."," ","C","o","n","t","e","n","t"," ","t","r","u","n","c",
      "a","t","e","d"," ","f","o","r"," ","b","r","e","v","i","t","y"," ",".",".",".","]">>

\* the note appended to the summary of a file that has related images
ImagesNote ==
    <<"\n","\n","N","o","t","e",":"," ","T","h","i","s"," ","s","e","c","t","i","o","n",
      " ","i","n","c","l","u","d","e","s"," ","i","m","a","g","e","s","/","d","i","a","g",
      "r","a","m","s"," ","f","o","r"," ","i","m","p","r","o","v","e","d"," ","u","n","d",
      "e","r","s","t","a","n","d","i","n","g",".">>

\* the fallback summary's fixed parts
FallbackHead ==
    <<"D","o","c","u","m","e","n","t","a","t","i","o","n"," ","f","i","l","e",":"," ">>

FallbackMid ==
    <<"."," ","F","o","r"," ","f","u","l","l"," ","d","e","t","a","i","l","s",","," ","r",
      "e","f","e","r"," ","t","o",":"," ","[">>

LinkMid ==
    <<"]","(">>

LinkEnd ==
    <<")">>

\* [img for img in image_files if img.startswith(file_dir)]
RECURSIVE ImagesUnder(_, _)
ImagesUnder(imgs, file_dir) ==
    IF imgs = <<>> THEN <<>>
    ELSE IF StartsWith(Head(imgs), file_dir)
    THEN <<Head(imgs)>> \o ImagesUnder(Tail(imgs), file_dir)
    ELSE ImagesUnder(Tail(imgs), file_dir)

\* related_images of the file at path
related_images(images, path) ==
    IF Truthy(images) THEN ImagesUnder(images.val, dirname(path)) ELSE <<>>

\* has_images as a match on whole path segments would give it
HasImages_SegmentMatch(images, path) ==
    /\ Truthy(images)
    /\ \E n \in DOMAIN images.val : StartsWith(images.val[n], dirname(path) \o <<"/">>)

\* has_images
HasImages(images, path) == Len(related_images(images, path)) > 0

\* truncated_content as it would be with the test len(content) >= 3000
truncated_content_AtBudget(content) ==
    IF Len(content) >= TruncationBudget
    THEN SubSeq(content, 1, TruncationBudget) \o TruncationMarker
    ELSE content

\* truncated_content
truncated_content(content) ==
    IF Len(content) > TruncationBudget
    THEN SubSeq(content, 1, TruncationBudget) \o TruncationMarker
    ELSE content

\* the fields the prompt template is filled with
BuildPrompt(images, path, content) ==
    [path |-> path, file_dir |-> dirname(path),
     related_images |-> related_images(images, path),
     link_name |-> basename(path), content |-> truncated_content(content)]

NoPrompt ==
    [path |-> <<>>, file_dir |-> <<>>, related_images |-> <<>>, link_name |-> <<>>,
     content |-> <<>>]

\* the summary stored when every attempt failed
FallbackSummary(path) ==
    FallbackHead \o basename(path) \o FallbackMid \o basename(path) \o LinkMid \o path \o LinkEnd

\* the summary stored after a successful call that answered text
SuccessSummary(text, has_images) ==
    IF has_images THEN Strip(text) \o ImagesNote ELSE Strip(text)

Event(what, secs) == [ev |-> what, secs |-> secs]

\* the locals when summarize_markdown_files(client, files, images) is entered
SummStart(files, images) ==
    [pc |-> "file", files |-> files, images |-> images, i |-> 1, retry_count |-> 0,
     has_images |-> FALSE, prompt |-> NoPrompt, answer |-> <<>>, summaries |-> <<>>,
     events |-> <<>>]

SummIdle == [SummStart(<<>>, None) EXCEPT !.pc = "idle"]

\* the head of the for loop: the next file's prompt is built, or the function returns
SummNextFile(st) ==
    IF st.i > Len(st.files)
    THEN [st EXCEPT !.pc = "done"]
    ELSE LET path    == st.files[st.i][1]
             content == st.files[st.i][2]
         IN  [st EXCEPT !.pc = "call",
                        !.has_images = HasImages(st.images, path),
                        !.prompt = BuildPrompt(st.images, path, content),
                        !.retry_count = 0,
                        !.answer = <<>>,
                        !.events = <<>>]

\* an attempt that answered text: the summary is stored and the retry loop is left
SummCallOk(st, text) ==
    [st EXCEPT !.summaries = DictSet(@, st.files[st.i][1], SuccessSummary(text, st.has_images)),
               !.answer = text,
               !.events = Append(@, Event("call_ok", 0)),
               !.pc = "file",
               !.i = @ + 1]

\* SummCallFail as it would be if the last failure stored nothing
SummCallFail_NoFallback(st) ==
    IF st.retry_count + 1 < max_retries
    THEN [st EXCEPT !.retry_count = @ + 1,
                    !.events = Append(@, Event("call_failed", 0)),
                    !.pc = "sleep"]
    ELSE [st EXCEPT !.retry_count = @ + 1,
                    !.events = Append(@, Event("call_failed", 0)),
                    !.pc = "file",
                    !.i = @ + 1]

\* an attempt that raised: another attempt after the wait, or the fallback
SummCallFail(st) ==
    IF st.retry_count + 1 < max_retries
    THEN [st EXCEPT !.retry_count = @ + 1,
                    !.events = Append(@, Event("call_failed", 0)),
                    !.pc = "sleep"]
    ELSE [st EXCEPT !.retry_count = @ + 1,
                    !.summaries = DictSet(@, st.files[st.i][1], FallbackSummary(st.files[st.i][1])),
                    !.events = Append(@, Event("call_failed", 0)),
                    !.pc = "file",
                    !.i = @ + 1]

\* time.sleep(wait_time), then the while loop's next turn
SummSleep(st) ==
    [st EXCEPT !.events = Append(@, Event("sleep", wait_time)), !.pc = "call"]

\* summarize_markdown_files run to its return, attempt k on file i answering
\* oracle[i][k]
RECURSIVE RunSumm(_, _)
RunSumm(st, oracle) ==
    IF st.pc = "file" THEN RunSumm(SummNextFile(st), oracle)
    ELSE IF st.pc = "sleep" THEN RunSumm(SummSleep(st), oracle)
    ELSE IF st.pc = "call"
    THEN LET answer == oracle[st.i][st.retry_count + 1]
         IN  IF answer.ok THEN RunSumm(SummCallOk(st, answer.text), oracle)
             ELSE RunSumm(SummCallFail(st), oracle)
    ELSE st

summarize_markdown_files(files, images, oracle) ==
    RunSumm(SummStart(files, images), oracle).summaries

\* the requests client.chat.completions.create was sent in such a run, in order
RECURSIVE RunSummCalls(_, _)
RunSummCalls(st, oracle) ==
    IF st.pc = "file" THEN RunSummCalls(SummNextFile(st), oracle)
    ELSE IF st.pc = "sleep" THEN RunSummCalls(SummSleep(st), oracle)
    ELSE IF st.pc = "call"
    THEN LET answer == oracle[st.i][st.retry_count + 1]
             path   == st.files[st.i][1]
         IN  IF answer.ok
             THEN <<NetCall("chat_completion", path, "ok", 0, answer.text)>>
                  \o RunSummCalls(SummCallOk(st, answer.text), oracle)
             ELSE <<NetCall("chat_completion", path, "raise", 0, <<>>)>>
                  \o RunSummCalls(SummCallFail(st), oracle)
    ELSE <<>>

-----------------------------------------------------------------------------
(* html_builder.py.  A document is the sequence of its blocks, in the order *)
(* the template writes them; each block is a record whose field k names it. *)

CategoryThreshold == 20

CatMain   == "README and Main Docs"
CatDocs   == "Documentation"
CatGuides == "Guides and Tutorials"
CatApi    == "API Reference"
CatOther  == "Other Files"

\* the categories, in the order the dict literal lists them
CategoryOrder == <<CatMain, CatDocs, CatGuides, CatApi, CatOther>>

\* CategoryOf as it would be with the test for api and reference made before the
\* test for tutorial and example
CategoryOf_ApiBeforeGuides(path) ==
    LET file_name == Lower(basename(path))
        dir_name  == Lower(dirname(path))
    IN  IF file_name \in {<<"r","e","a","d","m","e",".","m","d">>, <<"i","n","d","e","x",".","m","d">>} THEN CatMain
        ELSE IF Contains(dir_name, <<"d","o","c">>) \/ Contains(dir_name, <<"g","u","i","d","e">>) THEN CatDocs
        ELSE IF Contains(dir_name, <<"a","p","i">>) \/ Contains(dir_name, <<"r","e","f","e","r","e","n","c","e">>) THEN CatApi
        ELSE IF Contains(dir_name, <<"t","u","t","o","r","i","a","l">>) \/ Contains(dir_name, <<"e","x","a","m","p","l","e">>) THEN CatGuides
        ELSE CatOther

\* the category organize_content_for_html files a path under
CategoryOf(path) ==
    LET file_name == Lower(basename(path))
        dir_name  == Lower(dirname(path))
    IN  IF file_name \in {<<"r","e","a","d","m","e",".","m","d">>, <<"i","n","d","e","x",".","m","d">>} THEN CatMain
        ELSE IF Contains(dir_name, <<"d","o","c">>) \/ Contains(dir_name, <<"g","u","i","d","e">>) THEN CatDocs
        ELSE IF Contains(dir_name, <<"t","u","t","o","r","i","a","l">>) \/ Contains(dir_name, <<"e","x","a","m","p","l","e">>) THEN CatGuides
        ELSE IF Contains(dir_name, <<"a","p","i">>) \/ Contains(dir_name, <<"r","e","f","e","r","e","n","c","e">>) THEN CatApi
        ELSE CatOther

\* summaries.get(path, "")
SummaryOrEmpty(sums, path) == IF HasKey(sums, path) THEN DictGet(sums, path) ELSE <<>>

\* the files of one category: the paths of markdown_files, in its order
RECURSIVE FilesOfCategory(_, _, _)
FilesOfCategory(md, sums, cat) ==
    IF md = <<>> THEN <<>>
    ELSE LET path == Head(md)[1]
             rest == FilesOfCategory(Tail(md), sums, cat)
         IN  IF CategoryOf(path) = cat
             THEN <<<<path, SummaryOrEmpty(sums, path)>>>> \o rest
             ELSE rest

\* organize_content_for_html: a dict from category to the dict of its files
organize_content_for_html(md, sums) ==
    [c \in DOMAIN CategoryOrder |->
        <<CategoryOrder[c], FilesOfCategory(md, sums, CategoryOrder[c])>>]

\* str.replace of one character by a string
RECURSIVE ReplaceChar(_, _, _)
ReplaceChar(s, c, by) ==
    IF s = <<>> THEN <<>>
    ELSE (IF Head(s) = c THEN by ELSE <<Head(s)>>) \o ReplaceChar(Tail(s), c, by)

DisplayName(file_path) ==
    ReplaceChar(ReplaceChar(ReplaceChar(file_path, "/", <<" ", "/", " ">>), "_", <<" ">>),
                "-", <<" ">>)

\* https://github.com/{owner}/{repo}/blob/{branch}/{path}
BlobUrl(owner, repo_name, branch, path) ==
    [host |-> "github.com/blob", owner |-> owner, repo |-> repo_name, branch |-> branch,
     path |-> path]

\* https://raw.githubusercontent.com/{owner}/{repo}/{branch}/{path}
RawUrl(owner, repo_name, branch, path) ==
    [host |-> "raw.githubusercontent.com", owner |-> owner, repo |-> repo_name,
     branch |-> branch, path |-> path]

\* https://github.com/{owner}/{repo}
RepoUrl(owner, repo_name) == [host |-> "github.com", owner |-> owner, repo |-> repo_name]

ParagraphBreak == <<"\n", "\n">>

\* str.split("\n\n")
RECURSIVE SplitParagraphs(_)
SplitParagraphs(s) ==
    IF Contains(s, ParagraphBreak)
    THEN LET i == CHOOSE k \in 1..(Len(s) - 1) :
                    /\ SubSeq(s, k, k + 1) = ParagraphBreak
                    /\ \A j \in 1..(k - 1) : SubSeq(s, j, j + 1) # ParagraphBreak
         IN  <<SubSeq(s, 1, i - 1)>> \o SplitParagraphs(SubSeq(s, i + 2, Len(s)))
    ELSE <<s>>

NotePrefix == <<"N","o","t","e",":">>
ReferencePhrase == <<"F","o","r"," ","f","u","l","l"," ","d","e","t","a","i","l","s",","," ","r","e","f","e","r"," ","t","o",":">>

\* whether re.search(r'\[([^\]]+)\]\(([^)]+)\)', para) matches with its "[" at i:
\* the first "]" after i is followed by "(", and a ")" follows after at least
\* one more character
LinkMatchesAt(para, i) ==
    /\ para[i] = "["
    /\ \E j \in (i + 2)..Len(para) :
          /\ para[j] = "]"
          /\ \A m \in (i + 1)..(j - 1) : para[m] # "]"
          /\ j + 1 <= Len(para) /\ para[j + 1] = "("
          /\ \E e \in (j + 3)..Len(para) : para[e] = ")" /\ para[j + 2] # ")"

HasLink(para) == \E i \in 1..Len(para) : LinkMatchesAt(para, i)

\* the two groups of the leftmost match
LinkGroups(para) ==
    LET i == CHOOSE k \in 1..Len(para) :
                LinkMatchesAt(para, k) /\ \A m \in 1..(k - 1) : ~LinkMatchesAt(para, m)
        j == CHOOSE k \in (i + 2)..Len(para) :
                para[k] = "]" /\ \A m \in (i + 1)..(k - 1) : para[m] # "]"
        e == CHOOSE k \in (j + 3)..Len(para) :
                para[k] = ")" /\ \A m \in (j + 2)..(k - 1) : para[m] # ")"
    IN  [file_name |-> SubSeq(para, i + 1, j - 1), file_path |-> SubSeq(para, j + 2, e - 1)]

NoUrl == BlobUrl(<<>>, <<>>, <<>>, <<>>)

\* one paragraph of format_summary_content
FormatParagraph(para, owner, repo_name) ==
    IF StartsWith(para, NotePrefix)
    THEN [k |-> "note", text |-> para, href |-> NoUrl]
    ELSE IF Contains(para, ReferencePhrase) /\ owner # <<>> /\ repo_name # <<>>
    THEN IF HasLink(para)
         THEN [k |-> "reference", text |-> ReferencePhrase \o <<" ">> \o LinkGroups(para).file_name,
               href |-> BlobUrl(owner, repo_name, main, LinkGroups(para).file_path)]
         ELSE [k |-> "reference", text |-> para, href |-> NoUrl]
    ELSE [k |-> "p", text |-> para, href |-> NoUrl]

RECURSIVE FormatParagraphs(_, _, _)
FormatParagraphs(paras, owner, repo_name) ==
    IF paras = <<>> THEN <<>>
    ELSE LET para == Strip(Head(paras))
             rest == FormatParagraphs(Tail(paras), owner, repo_name)
         IN  IF para = <<>> THEN rest
             ELSE <<FormatParagraph(para, owner, repo_name)>> \o rest

\* format_summary_content
format_summary_content(summary, owner, repo_name) ==
    FormatParagraphs(SplitParagraphs(summary), owner, repo_name)

\* create_file_section
create_file_section(file_path, summary, section_id, owner, repo_name) ==
    [k |-> "section", id |-> section_id, display_name |-> DisplayName(file_path),
     file_url |-> BlobUrl(owner, repo_name, main, file_path), file_path |-> file_path,
     body |-> format_summary_content(summary, owner, repo_name)]

SectionId(n) == [anchor |-> "section-", n |-> n]

\* the inner for loop of generate_onboarding_html over one category's files:
\* the links and the sections it appends, the first section numbered counter
RECURSIVE RenderFiles(_, _, _, _)
RenderFiles(files, counter, owner, repo_name) ==
    IF files = <<>> THEN [toc |-> <<>>, sections |-> <<>>]
    ELSE LET file_path  == Head(files)[1]
             summary    == Head(files)[2]
             section_id == SectionId(counter)
             rest       == RenderFiles(Tail(files), counter + 1, owner, repo_name)
         IN  [toc |-> <<[k |-> "toc_link", href |-> section_id, text |-> basename(file_path)]>>
                        \o rest.toc,
              sections |-> <<create_file_section(file_path, summary, section_id, owner, repo_name)>>
                        \o rest.sections]

\* section_counter as it would be if each category numbered its sections anew
CounterAfter_Restart(counter, files) == counter

\* section_counter after the sections of one category's files
CounterAfter(counter, files) == counter + Len(files)

\* the outer for loop over organized_content, from category c on
RECURSIVE RenderCategories(_, _, _, _, _)
RenderCategories(organized, c, counter, owner, repo_name) ==
    IF c > Len(organized) THEN [toc |-> <<>>, sections |-> <<>>]
    ELSE LET category == organized[c][1]
             files    == organized[c][2]
             header   == IF Len(organized) > 1
                         THEN <<[k |-> "toc_category", category |-> category, count |-> Len(files)]>>
                         ELSE <<>>
             these    == RenderFiles(files, counter, owner, repo_name)
             rest     == RenderCategories(organized, c + 1, CounterAfter(counter, files), owner,
                                          repo_name)
         IN  IF files = <<>>
             THEN RenderCategories(organized, c + 1, counter, owner, repo_name)
             ELSE [toc |-> header \o these.toc \o rest.toc,
                   sections |-> these.sections \o rest.sections]

ArchitectureKeywords == {<<"a","r","c","h","i","t","e","c","t","u","r","e">>, <<"d","i","a","g","r","a","m">>, <<"f","l","o","w">>, <<"d","e","s","i","g","n">>}
ScreenshotKeywords == {<<"s","c","r","e","e","n","s","h","o","t">>, <<"s","c","r","e","e","n">>, <<"d","e","m","o">>}

BucketArchitecture == "Architecture & Diagrams"
BucketScreenshots  == "Screenshots & Demos"
BucketOther        == "Other Images"

\* BucketOf as it would be with the screenshot keywords tested first
BucketOf_ScreenshotsFirst(img_path) ==
    LET img_lower == Lower(img_path)
    IN  IF \E kw \in ScreenshotKeywords : Contains(img_lower, kw) THEN BucketScreenshots
        ELSE IF \E kw \in ArchitectureKeywords : Contains(img_lower, kw) THEN BucketArchitecture
        ELSE BucketOther

\* the list create_image_gallery_section appends an image to
BucketOf(img_path) ==
    LET img_lower == Lower(img_path)
    IN  IF \E kw \in ArchitectureKeywords : Contains(img_lower, kw) THEN BucketArchitecture
        ELSE IF \E kw \in ScreenshotKeywords : Contains(img_lower, kw) THEN BucketScreenshots
        ELSE BucketOther

RECURSIVE ImagesOfBucket(_, _)
ImagesOfBucket(imgs, bucket) ==
    IF imgs = <<>> THEN <<>>
    ELSE IF BucketOf(Head(imgs)) = bucket
    THEN <<Head(imgs)>> \o ImagesOfBucket(Tail(imgs), bucket)
    ELSE ImagesOfBucket(Tail(imgs), bucket)

GalleryItem(img_path, owner, repo_name) ==
    [k |-> "gallery_item", img_url |-> RawUrl(owner, repo_name, main, img_path),
     img_name |-> basename(img_path), img_path |-> img_path]

\* one bucket of the gallery: nothing for an empty bucket, else its heading and items
GalleryBucket(imgs, bucket, owner, repo_name) ==
    LET mine == ImagesOfBucket(imgs, bucket)
    IN  IF mine = <<>> THEN <<>>
        ELSE <<[k |-> "gallery_category", heading |-> bucket]>>
             \o [n \in DOMAIN mine |-> GalleryItem(mine[n], owner, repo_name)]

\* create_image_gallery_section
create_image_gallery_section(images, owner, repo_name) ==
    IF ~Truthy(images) THEN <<>>
    ELSE <<[k |-> "gallery"]>>
         \o GalleryBucket(images.val, BucketArchitecture, owner, repo_name)
         \o GalleryBucket(images.val, BucketScreenshots, owner, repo_name)
         \o GalleryBucket(images.val, BucketOther, owner, repo_name)

\* OrganizedContent as it would be without the test on the number of summaries
OrganizedContent_NoThreshold(sums, md) ==
    IF Truthy(md)
    THEN organize_content_for_html(md.val, sums)
    ELSE << <<CatDocs, sums>> >>

\* the choice between the categories and the single category
OrganizedContent(sums, md) ==
    IF Truthy(md) /\ Len(sums) > CategoryThreshold
    THEN organize_content_for_html(md.val, sums)
    ELSE << <<CatDocs, sums>> >>

\* FormatDate as it would be with the hour in the format string
FormatDate_WithHour(now) ==
    [year |-> now.year, month |-> now.month, day |-> now.day, hour |-> now.hour]

\* datetime.now().strftime("%B %d, %Y"): the day of the clock reading, not its time
FormatDate(now) == [year |-> now.year, month |-> now.month, day |-> now.day]

\* the cover page of the template
CoverBlock(company, repo_name, github_url, author, current_date, branch) ==
    [k |-> "cover", company |-> company, repo_name |-> repo_name, github_url |-> github_url,
     author |-> author, generated |-> current_date, branch |-> branch]

\* the footer of the template
FooterBlock(github_url) == [k |-> "footer", github_url |-> github_url]

\* generate_onboarding_html, now being what datetime.now() reads
generate_onboarding_html(sums, meta, author, company, md, images, now) ==
    LET repo_name    == meta.repo
        owner        == meta.owner
        github_url   == RepoUrl(owner, repo_name)
        current_date == FormatDate(now)
        rendered     == RenderCategories(OrganizedContent(sums, md), 1, 1, owner, repo_name)
    IN  <<[k |-> "title", repo_name |-> repo_name]>>
        \o <<CoverBlock(company, repo_name, github_url, author, current_date, meta.branch)>>
        \o <<[k |-> "toc_summary", count |-> Len(sums)]>>
        \o rendered.toc
        \o rendered.sections
        \o create_image_gallery_section(images, owner, repo_name)
        \o <<FooterBlock(github_url)>>

-----------------------------------------------------------------------------
(* What the network can answer, and the requests a call can be given *)

MaxUrlLen == 4
MaxTree == 2

UrlChars == {"/", "o", "r"}

\* the path components of the URLs tried
UrlPaths == SeqsUpTo(UrlChars, MaxUrlLen)

NoBranchResponse == [kind |-> "error", has_default |-> FALSE, default_branch |-> <<>>]

BranchResponses ==
    { NoBranchResponse,
      [kind |-> "ok", has_default |-> TRUE,  default_branch |-> dev],
      [kind |-> "ok", has_default |-> FALSE, default_branch |-> <<>>] }

TreeItems ==
    { [type |-> "blob", path |-> P_root_md],
      [type |-> "blob", path |-> P_upper_md],
      [type |-> "blob", path |-> P_e_svg],
      [type |-> "blob", path |-> P_txt],
      [type |-> "tree", path |-> P_dir_md] }

NoTreeResponse == [kind |-> "error", tree |-> <<>>]

TreeResponses ==
    {NoTreeResponse} \cup {[kind |-> "ok", tree |-> t] : t \in DistinctSeqsUpTo(TreeItems, MaxTree)}

SomeText == <<"#", " ", "T">>

NotFound == [kind |-> "ok", status |-> 404, text |-> <<"4", "0", "4">>]

RawResponses ==
    { [kind |-> "ok", status |-> 200, text |-> SomeText],
      [kind |-> "ok", status |-> 200, text |-> <<>>],
      NotFound,
      [kind |-> "raise", status |-> 0, text |-> <<>>] }

\* the blobs of a tree the fetcher asks the raw host for
MdBlobPaths(tree) ==
    {tree[i].path : i \in {j \in DOMAIN tree :
        tree[j].type = "blob" /\ EndsWith(Lower(tree[j].path), DotMd)}}

AllPaths == {it.path : it \in TreeItems}

\* the networks a call on url_path can meet: a request that is never made has
\* one (unused) answer
Networks(url_path, branches, trees, raws) ==
    LET bs == IF parse_repo_url(url_path).raised THEN {NoBranchResponse} ELSE branches
    IN  UNION { UNION { { [branch |-> b, tree |-> t,
                           raw |-> [p \in AllPaths |-> IF p \in DOMAIN r THEN r[p] ELSE NotFound]] :
                          r \in [MdBlobPaths(t.tree) -> raws] } :
                        t \in IF b.kind = "ok" THEN trees ELSE {NoTreeResponse} } :
                b \in bs }

-----------------------------------------------------------------------------
(* The arguments summarize_markdown_files is run on, and what the service answers *)

MaxFiles == 2

P_e_md == <<"e", "/", "f", ".", "m", "d">>                 \* e/f.md

SummPaths == {P_root_md, P_dir_md, P_e_md}

ContentChars == <<"#", "a", "\n">>

\* a content of n characters
ContentOfLen(n) == [k \in 1..n |-> ContentChars[(k % 3) + 1]]

\* contents below, at and above the truncation budget
Contents ==
    {ContentOfLen(1), ContentOfLen(TruncationBudget), ContentOfLen(TruncationBudget + 1)}

\* the dicts of at most n files over the given paths and contents
FileDicts(paths, contents, n) ==
    UNION { { [i \in DOMAIN ks |-> <<ks[i], cs[i]>>] : cs \in [DOMAIN ks -> contents] } :
            ks \in DistinctSeqsUpTo(paths, n) }

\* image_files: absent, empty, an image of a sibling directory whose name the
\* directory d is a prefix of, images of the directories d and e
SummImageLists == {None, Some(<<>>), Some(<<P_d2_png>>), Some(<<P_d_png, P_e_svg>>)}

\* what response.choices[0].message.content can be
ResponseTexts == {<<" ", "S", ".", "\n">>}

-----------------------------------------------------------------------------
(* The arguments generate_onboarding_html is called with, and the clock *)

MaxSummaries == 1

RenderPaths == {P_root_md, P_dir_md}

\* a summary the service wrote for a file with images, and a fallback summary
SummaryTexts == {<<"S", ".">> \o ImagesNote, FallbackSummary(P_dir_md)}

Owner == <<"o">>
Repo  == <<"r">>

RepoMetas == {[repo |-> Repo, owner |-> Owner, branch |-> b] : b \in {main, dev}}

RenderMarkdownFiles ==
    {None, Some(<<>>), Some(<<<<P_root_md, SomeText>>, <<P_dir_md, SomeText>>>>)}

RenderImageLists == {None, Some(<<>>), Some(<<P_d2_png>>)}

\* paths that meet each test of organize_content_for_html, in no category's order
P_src_md       == <<"s","r","c","/","o",".","m","d">>
P_api_md       == <<"a","p","i","/","v",".","m","d">>
P_docs_md      == <<"d","o","c","s","/","s","e","t","u","p",".","m","d">>
P_readme_md    == <<"R","E","A","D","M","E",".","m","d">>
P_tut_api_md   == <<"t","u","t","o","r","i","a","l","/","a","p","i","/","s",".","m","d">>
P_guide_tut_md == <<"G","u","i","d","e","/","t","u","t","o","r","i","a","l","/","t",".","m","d">>
P_examples_md  == <<"e","x","a","m","p","l","e","s","/","e",".","m","d">>
P_ref_md       == <<"R","e","f","e","r","e","n","c","e","/","r",".","m","d">>
P_apidoc_md    == <<"a","p","i","-","d","o","c",".","m","d">>
P_docs_index   == <<"d","o","c","s","/","i","n","d","e","x",".","m","d">>

KeywordPaths ==
    <<P_src_md, P_api_md, P_docs_md, P_readme_md, P_tut_api_md, P_guide_tut_md,
      P_examples_md, P_ref_md, P_apidoc_md, P_docs_index>>

FillerLetters == <<"a", "b", "c", "d", "e", "f", "g", "h", "i", "j", "k", "l">>

\* more files of a directory that no test of organize_content_for_html matches
FillerPaths == [n \in DOMAIN FillerLetters |-> <<"l", "i", "b", "/", FillerLetters[n]>> \o DotMd]

\* the files of a repository with more Markdown files than the threshold
ManyPaths == KeywordPaths \o FillerPaths

\* the dict of the first n of them, each with the same text
ManyFiles(n, text) == [i \in 1..n |-> <<ManyPaths[i], text>>]

\* the small repositories: any summaries, with or without the files and images
FewRenderArgs ==
    [summaries : FileDicts(RenderPaths, SummaryTexts, MaxSummaries),
     repo_meta : RepoMetas,
     author : {"Riddhi Shah"},
     company : {"Bazel Inc"},
     markdown_files : RenderMarkdownFiles,
     image_files : RenderImageLists]

\* the repositories at and above the threshold: summaries of as many files as
\* the threshold and of one more, with no mapping, an empty one, the mapping of
\* one file fewer than the summaries, of the same files, and of one file more
ManyRenderArgs ==
    [summaries : {ManyFiles(n, <<"S", ".">>) : n \in {CategoryThreshold, CategoryThreshold + 1}},
     repo_meta : RepoMetas,
     author : {"Riddhi Shah"},
     company : {"Bazel Inc"},
     markdown_files : {None, Some(<<>>)} \cup
                      {Some(ManyFiles(n, SomeText)) :
                          n \in CategoryThreshold..(CategoryThreshold + 2)},
     image_files : {None}]

MaxImages == 2

\* images whose paths hold a keyword in the file name, in another case, in the
\* directory, a keyword of each list, and none
I_flow           == <<"i","m","g","/","F","l","o","w",".","p","n","g">>
I_design         == <<"d","e","s","i","g","n","/","x",".","p","n","g">>
I_demo           == <<"d","e","m","o",".","g","i","f">>
I_screen_diagram == <<"s","c","r","e","e","n","-","d","i","a","g","r","a","m",".","p","n","g">>

GalleryImages == {I_flow, I_design, I_demo, I_screen_diagram, P_d2_png}

\* the repositories with images: no summaries, any list of distinct images
GalleryRenderArgs ==
    [summaries : {<<>>},
     repo_meta : RepoMetas,
     author : {"Riddhi Shah"},
     company : {"Bazel Inc"},
     markdown_files : {None},
     image_files : {Some(l) : l \in DistinctSeqsUpTo(GalleryImages, MaxImages)}]

RenderArgs == FewRenderArgs \cup ManyRenderArgs \cup GalleryRenderArgs

\* readings of datetime.now(): two days, two hours of each
Clocks == [year : {2026}, month : {11}, day : {2, 3}, hour : {9, 17}]

\* generate_onboarding_html on a record of its arguments
RenderWith(args, now) ==
    generate_onboarding_html(args.summaries, args.repo_meta, args.author, args.company,
                             args.markdown_files, args.image_files, now)

-----------------------------------------------------------------------------
(* app.py: what the callbacks are given *)

\* st.session_state["repo_input"]: the empty box, or a URL by its path component
RepoInputs == {None, Some(<<"/", "o">>), Some(<<"/", "o", "/", "r">>)}

TreeOne == <<[type |-> "blob", path |-> P_root_md], [type |-> "blob", path |-> P_d2_png]>>
TreeTwo == <<[type |-> "blob", path |-> P_dir_md]>>

SessionBranchResponses ==
    {NoBranchResponse, [kind |-> "ok", has_default |-> TRUE, default_branch |-> dev]}

SessionTreeResponses ==
    {NoTreeResponse, [kind |-> "ok", tree |-> TreeOne], [kind |-> "ok", tree |-> TreeTwo]}

SessionRawResponses == {[kind |-> "ok", status |-> 200, text |-> SomeText], NotFound}

\* what each attempt on each file is answered: Answers[i][k] for attempt k on file i
Failure == [ok |-> FALSE, text |-> <<>>]

Answers(n) ==
    [1..n -> [1..max_retries -> {Failure} \cup {[ok |-> TRUE, text |-> t] : t \in ResponseTexts}]]

MissingKeyMessage == "openai.OpenAIError: The api_key client option must be set"

\* what the PDF service does with the one request it is sent
PdfResponses == {"200", "500", "timeout", "refused"}

SessionClocks == {c \in Clocks : c.day = 2 /\ c.hour = 9}

-----------------------------------------------------------------------------
(* Initial values *)

FetchIdle ==
    [called |-> FALSE, url |-> <<>>, tree |-> <<>>, out |-> FetchFailed("", <<>>)]

NoMeta == [repo |-> <<>>, owner |-> <<>>, branch |-> <<>>]

NoClock == [year |-> 0, month |-> 0, day |-> 0, hour |-> 0]

NoArgs ==
    [summaries |-> <<>>, repo_meta |-> NoMeta, author |-> "", company |-> "",
     markdown_files |-> None, image_files |-> None]

RenderIdle ==
    [calls |-> 0, args |-> NoArgs, now1 |-> NoClock, html1 |-> <<>>, now2 |-> NoClock,
     html2 |-> <<>>]

\* None in an error slot of the session
NoMessage == "None"

\* the binary the PDF service answered, known by the document it was made from
PdfOf(html) == [some |-> TRUE, made_from |-> html]

NoPdf == [some |-> FALSE, made_from |-> <<>>]

SessionInit ==
    /\ markdown_files = None
    /\ image_files = None
    /\ repo_meta = None
    /\ summaries = None
    /\ fetch_error = NoMessage
    /\ summary_error = NoMessage
    /\ html_content = None
    /\ pdf_content = NoPdf
    /\ last = [op |-> "none", outcome |-> "none", calls |-> <<>>, errors |-> <<>>, done |-> {}]

-----------------------------------------------------------------------------
(* One call of fetch_repository_docs on any URL, against any network *)

FetchCall ==
    /\ ~fetch_call.called
    /\ \E u \in UrlPaths :
         \E net \in Networks(u, BranchResponses, TreeResponses, RawResponses) :
            fetch_call' = [called |-> TRUE, url |-> u, tree |-> net.tree.tree,
                           out |-> fetch_repository_docs(u, net)]
    /\ UNCHANGED <<session_vars, sm, render_call>>

InitFetch ==
    /\ SessionInit
    /\ fetch_call = FetchIdle
    /\ sm = SummIdle
    /\ render_call = RenderIdle

NextFetch == FetchCall

SpecFetch == InitFetch /\ [][NextFetch]_vars

-----------------------------------------------------------------------------
(* Claims on fetch_repository_docs *)

\* the segments of a URL path: its maximal runs of characters other than "/"
SegmentCount(url_path) ==
    Cardinality({i \in 1..Len(url_path) :
        url_path[i] # "/" /\ (i = 1 \/ url_path[i - 1] = "/")})

\* the raw downloads a call issued that were answered with HTTP 200
Downloaded(calls) ==
    {calls[i].path : i \in {j \in DOMAIN calls : calls[j].op = "raw" /\ calls[j].status = 200}}

\* C2: the keys of the returned markdown_files are exactly the blobs of the tree
\* listing whose path ends in .md and whose raw download was answered with
\* HTTP 200, whatever text came with it.
C2_KeysAreDownloadedMdBlobs ==
    (fetch_call.called /\ ~fetch_call.out.raised) =>
        DictKeys(fetch_call.out.markdown_files)
            = MdBlobPaths(fetch_call.tree) \cap Downloaded(fetch_call.out.calls)

\* C3: a URL whose path has fewer than two segments makes fetch_repository_docs
\* fail with the invalid-URL error, no network call having been issued.
C3_ShortUrlFailsBeforeNetwork ==
    (fetch_call.called /\ SegmentCount(fetch_call.url) < 2) =>
        /\ fetch_call.out.raised
        /\ fetch_call.out.error = InvalidUrlMessage
        /\ fetch_call.out.calls = <<>>

\* a call on a URL with exactly one segment, slashes around it, was refused
C3_Witness ==
    /\ fetch_call.called
    /\ SegmentCount(fetch_call.url) = 1
    /\ Len(fetch_call.url) > 2
    /\ fetch_call.out.raised

-----------------------------------------------------------------------------
(* One run of summarize_markdown_files, statement by statement *)

InitSumm ==
    /\ SessionInit
    /\ fetch_call = FetchIdle
    /\ render_call = RenderIdle
    /\ sm \in {SummStart(f, im) : f \in FileDicts(SummPaths, Contents, MaxFiles),
                                  im \in SummImageLists}

\* for path, content in markdown_files.items(): ... prompt = ...
NextFile ==
    /\ sm.pc = "file"
    /\ sm' = SummNextFile(sm)
    /\ UNCHANGED <<session_vars, fetch_call, render_call>>

\* client.chat.completions.create(...) answers
CallSucceeds ==
    /\ sm.pc = "call"
    /\ \E text \in ResponseTexts : sm' = SummCallOk(sm, text)
    /\ UNCHANGED <<session_vars, fetch_call, render_call>>

\* client.chat.completions.create(...) raises
CallFails ==
    /\ sm.pc = "call"
    /\ sm' = SummCallFail(sm)
    /\ UNCHANGED <<session_vars, fetch_call, render_call>>

\* time.sleep(wait_time) returns
Sleep ==
    /\ sm.pc = "sleep"
    /\ sm' = SummSleep(sm)
    /\ UNCHANGED <<session_vars, fetch_call, render_call>>

NextSumm == NextFile \/ CallSucceeds \/ CallFails \/ Sleep

\* every statement of the run returns: the service answers or raises, the wait ends
SpecSumm == InitSumm /\ [][NextSumm]_vars /\ WF_vars(NextSumm)

-----------------------------------------------------------------------------
(* Claims on summarize_markdown_files *)

\* C1: the summaries returned have exactly the keys of the files passed in,
\* each once, whichever attempts succeeded or failed.
C1_OutputKeysEqualInputKeys ==
    sm.pc = "done" =>
        /\ DictKeys(sm.summaries) = DictKeys(sm.files)
        /\ Len(sm.summaries) = Len(sm.files)

\* a run over two files has returned, one summarized by the service, one by the fallback
C1_Witness ==
    /\ sm.pc = "done"
    /\ Len(sm.files) = 2
    /\ \E i, j \in DOMAIN sm.summaries :
          /\ sm.summaries[i][2] = FallbackSummary(sm.summaries[i][1])
          /\ sm.summaries[j][2] # FallbackSummary(sm.summaries[j][1])

\* the file the retry loop is working on
CurrentContent == sm.files[sm.i][2]

\* C4: content longer than 3000 characters enters the prompt as its first 3000
\* characters followed by the truncation marker; content of at most 3000
\* characters enters the prompt unchanged.
C4_TruncationAtBudget ==
    sm.pc \in {"call", "sleep"} =>
        LET inPrompt == sm.prompt.content
        IN  /\ Len(CurrentContent) > 3000 =>
                /\ Len(inPrompt) = 3000 + Len(TruncationMarker)
                /\ SubSeq(inPrompt, 1, 3000) = SubSeq(CurrentContent, 1, 3000)
                /\ SubSeq(inPrompt, 3001, Len(inPrompt)) = TruncationMarker
            /\ Len(CurrentContent) <= 3000 => inPrompt = CurrentContent

\* a prompt was built from a content one character over the budget
C4_Witness ==
    /\ sm.pc = "call"
    /\ Len(CurrentContent) = 3001
    /\ EndsWith(sm.prompt.content, TruncationMarker)

\* the events of the retry loop of the current file (of the file just finished,
\* once the loop is left), by kind
EventKinds == [n \in DOMAIN sm.events |-> sm.events[n].ev]

CallsIssued == Cardinality({n \in DOMAIN EventKinds : EventKinds[n] \in {"call_ok", "call_failed"}})

\* the retry loop of file i - 1 has been left
LoopLeft == sm.pc \in {"file", "done"} /\ sm.i > 1

\* what a loop may have done so far: at most 2 calls; a wait of 30 seconds only
\* after a failed call and, once the loop is left, only before another call; a
\* successful call only as the last event of a loop that is left; the loop left
\* after the first success or the second failure, and in the second case the
\* fallback summary of the file stored for it
C5_RetryLoopSafe ==
    /\ CallsIssued <= 2
    /\ \A n \in DOMAIN EventKinds :
          /\ EventKinds[n] = "sleep" =>
                /\ sm.events[n].secs = 30
                /\ n > 1 /\ EventKinds[n - 1] = "call_failed"
                /\ n < Len(EventKinds) => EventKinds[n + 1] \in {"call_ok", "call_failed"}
                /\ n = Len(EventKinds) => sm.pc = "call"
          /\ EventKinds[n] = "call_ok" => (n = Len(EventKinds) /\ LoopLeft)
          /\ (EventKinds[n] = "call_failed" /\ n < Len(EventKinds)) => EventKinds[n + 1] = "sleep"
    /\ sm.pc = "sleep" => (EventKinds # <<>> /\ EventKinds[Len(EventKinds)] = "call_failed")
    /\ LoopLeft =>
          LET path == sm.files[sm.i - 1][1]
          IN  /\ EventKinds # <<>>
              /\ HasKey(sm.summaries, path)
              /\ EventKinds[Len(EventKinds)] = "call_failed" =>
                    /\ CallsIssued = 2
                    /\ DictGet(sm.summaries, path) =
                          FallbackHead \o basename(path) \o FallbackMid \o basename(path)
                            \o LinkMid \o path \o LinkEnd

\* C5: for each file the retry loop terminates, having called the service at
\* most 2 times, waited 30 seconds only between a failed attempt and the next,
\* stopped at the first success, and stored the fallback summary when every
\* attempt failed.
C5_RetryLoopTerminates == []C5_RetryLoopSafe /\ <>(sm.pc = "done")

\* a loop was left after two failed calls with one wait between them
C5_Witness ==
    /\ LoopLeft
    /\ EventKinds = <<"call_failed", "sleep", "call_failed">>
    /\ sm.pc = "done"

\* the images whose path starts with the directory string of the file at path
ImagesWithDirPrefix(path) ==
    IF sm.images.some
    THEN {n \in DOMAIN sm.images.val :
            LET d == dirname(path)
            IN  Len(d) <= Len(sm.images.val[n]) /\ SubSeq(sm.images.val[n], 1, Len(d)) = d}
    ELSE {}

-----------------------------------------------------------------------------
(* Two calls of generate_onboarding_html on the same arguments *)

InitRender ==
    /\ SessionInit
    /\ fetch_call = FetchIdle
    /\ sm = SummIdle
    /\ render_call = RenderIdle

\* a first call, on any arguments, at any time
Render ==
    /\ render_call.calls = 0
    /\ \E args \in RenderArgs, now \in Clocks :
          render_call' = [render_call EXCEPT !.calls = 1, !.args = args, !.now1 = now,
                                             !.html1 = RenderWith(args, now)]
    /\ UNCHANGED <<session_vars, fetch_call, sm>>

\* a second call on the arguments of the first, at any time
RenderAgain ==
    /\ render_call.calls = 1
    /\ \E now \in Clocks :
          render_call' = [render_call EXCEPT !.calls = 2, !.now2 = now,
                                             !.html2 = RenderWith(render_call.args, now)]
    /\ UNCHANGED <<session_vars, fetch_call, sm>>

NextRender == Render \/ RenderAgain

SpecRender == InitRender /\ [][NextRender]_vars

-----------------------------------------------------------------------------
(* Claims on generate_onboarding_html *)

\* the positions of a document's blocks of the given kinds
BlocksOfKind(html, kinds) == {n \in DOMAIN html : html[n].k \in kinds}

\* C6: called with no summaries, generate_onboarding_html returns a document
\* with its cover and its footer, no file section and no table-of-contents
\* entry, whatever markdown_files and image_files are.
C6_EmptySummariesDocument ==
    (render_call.calls >= 1 /\ render_call.args.summaries = <<>>) =>
        LET html == render_call.html1
        IN  /\ Cardinality(BlocksOfKind(html, {"cover"})) = 1
            /\ Cardinality(BlocksOfKind(html, {"footer"})) = 1
            /\ html[Len(html)].k = "footer"
            /\ BlocksOfKind(html, {"section"}) = {}
            /\ BlocksOfKind(html, {"toc_link", "toc_category"}) = {}

\* a document was rendered from no summaries while Markdown files and images
\* were passed
C6_Witness ==
    /\ render_call.calls >= 1
    /\ render_call.args.summaries = <<>>
    /\ Truthy(render_call.args.markdown_files)
    /\ Truthy(render_call.args.image_files)
    /\ BlocksOfKind(render_call.html1, {"gallery"}) # {}

SameDay(a, b) == a.year = b.year /\ a.month = b.month /\ a.day = b.day

\* C7: two calls on the same arguments return the same document when made on
\* the same day, at whatever time of day; made on different days, the documents
\* differ in nothing but the date the cover carries.
C7_SameDaySameDocument ==
    render_call.calls = 2 =>
        LET h1 == render_call.html1
            h2 == render_call.html2
        IN  /\ SameDay(render_call.now1, render_call.now2) => h1 = h2
            /\ Len(h1) = Len(h2)
            /\ \A n \in DOMAIN h1 :
                  \/ h1[n] = h2[n]
                  \/ /\ h1[n].k = "cover" /\ h2[n].k = "cover"
                     /\ [h1[n] EXCEPT !.generated = h2[n].generated] = h2[n]

\* the same summaries were rendered twice on the same day, at two different hours
C7_Witness ==
    /\ render_call.calls = 2
    /\ render_call.args.summaries # <<>>
    /\ SameDay(render_call.now1, render_call.now2)
    /\ render_call.now1 # render_call.now2


\* the blocks of a kind, in the order the document has them
BlocksInOrder(html, kind) == SelectSeq(html, LAMBDA b : b.k = kind)

\* the files generate_onboarding_html iterates over, category after category
RenderedFiles(args) ==
    LET organized == OrganizedContent(args.summaries, args.markdown_files)
    IN  [c \in DOMAIN organized |-> organized[c][2]]

RECURSIVE Flatten(_)
Flatten(seqs) == IF seqs = <<>> THEN <<>> ELSE Head(seqs) \o Flatten(Tail(seqs))

\* C11: in the document generate_onboarding_html returns, the file sections
\* are the files it iterates over, one section each and in that order; there
\* are as many table-of-contents links as sections; the k-th section has the id
\* section-k and the k-th link has that anchor as its target and the file's
\* base name as its text; every link comes before every section.
C11_LinksMatchSections ==
    render_call.calls >= 1 =>
        LET html     == render_call.html1
            links    == BlocksInOrder(html, "toc_link")
            sections == BlocksInOrder(html, "section")
            files    == Flatten(RenderedFiles(render_call.args))
        IN  /\ Len(links) = Len(sections)
            /\ Len(sections) = Len(files)
            /\ \A n \in DOMAIN sections :
                  /\ sections[n].id = [anchor |-> "section-", n |-> n]
                  /\ links[n].href = [anchor |-> "section-", n |-> n]
                  /\ sections[n].file_path = files[n][1]
                  /\ links[n].text = basename(files[n][1])
            /\ \A i, j \in DOMAIN sections : i # j => sections[i].id # sections[j].id
            /\ \A i \in BlocksOfKind(html, {"toc_link"}), j \in BlocksOfKind(html, {"section"}) :
                  i < j

\* a document was rendered with its files in categories, three of them at
\* least with files, and more sections than the threshold
C11_Witness ==
    /\ render_call.calls >= 1
    /\ Cardinality(BlocksOfKind(render_call.html1, {"toc_category"})) >= 3
    /\ Len(BlocksInOrder(render_call.html1, "section")) > CategoryThreshold
    /\ Len(BlocksInOrder(render_call.html1, "toc_link")) > CategoryThreshold

\* the rules a path is tried against, first match first: the words its file
\* name is one of, or the words its directory contains one of
CategoryRules ==
    <<[on |-> "file", words |-> {<<"r","e","a","d","m","e",".","m","d">>, <<"i","n","d","e","x",".","m","d">>}],
      [on |-> "dir", words |-> {<<"d","o","c">>, <<"g","u","i","d","e">>}],
      [on |-> "dir", words |-> {<<"t","u","t","o","r","i","a","l">>, <<"e","x","a","m","p","l","e">>}],
      [on |-> "dir", words |-> {<<"a","p","i">>, <<"r","e","f","e","r","e","n","c","e">>}]>>

RuleMatches(rule, path) ==
    IF rule.on = "file"
    THEN Lower(basename(path)) \in rule.words
    ELSE \E w \in rule.words : Contains(Lower(dirname(path)), w)

\* the position, among the five categories, of the one a path belongs to
ExpectedCategory(path) ==
    IF \E r \in DOMAIN CategoryRules : RuleMatches(CategoryRules[r], path)
    THEN CHOOSE r \in DOMAIN CategoryRules :
            /\ RuleMatches(CategoryRules[r], path)
            /\ \A q \in 1..(r - 1) : ~RuleMatches(CategoryRules[q], path)
    ELSE Len(CategoryRules) + 1

\* the paths of a dict that belong to the category at position c, in the dict's order
PathsExpectedIn(d, c) ==
    LET mine == SelectSeq(d, LAMBDA kv : ExpectedCategory(kv[1]) = c)
    IN  [n \in DOMAIN mine |-> mine[n][1]]

\* the table of contents of a document: its category headers and links, in order
TocOf(html) == SelectSeq(html, LAMBDA b : b.k \in {"toc_category", "toc_link"})

\* the table of contents the categories at positions c.. are expected to give
RECURSIVE ExpectedToc(_, _)
ExpectedToc(d, c) ==
    IF c > Len(CategoryOrder) THEN <<>>
    ELSE LET paths == PathsExpectedIn(d, c)
         IN  (IF paths = <<>> THEN <<>>
              ELSE <<[k |-> "toc_category", name |-> CategoryOrder[c], count |-> Len(paths)]>>
                   \o [n \in DOMAIN paths |-> [k |-> "toc_link", name |-> basename(paths[n]),
                                               count |-> 0]])
             \o ExpectedToc(d, c + 1)

\* a header or a link of a document, by its kind, its name and its count
TocEntry(b) ==
    IF b.k = "toc_category" THEN [k |-> b.k, name |-> b.category, count |-> b.count]
    ELSE [k |-> b.k, name |-> b.text, count |-> 0]

\* C12: generate_onboarding_html groups the files into the five categories
\* exactly when there are more than 20 summaries and markdown_files is given and
\* not empty.  Then every path of markdown_files has one section, under the first
\* category whose test it meets (README or index file name; directory with doc or
\* guide; with tutorial or example; with api or reference; else Other), each
\* category with files has one header that counts them, and a category without
\* files has none.  Otherwise the sections are those of the summaries, in their
\* order, and no header is written.
C12_CategoriesOverThreshold ==
    render_call.calls >= 1 =>
        LET html     == render_call.html1
            sums     == render_call.args.summaries
            md       == render_call.args.markdown_files
            grouped  == Len(sums) > 20 /\ md.some /\ md.val # <<>>
            toc      == TocOf(html)
            sections == BlocksInOrder(html, "section")
        IN  /\ grouped <=> BlocksOfKind(html, {"toc_category"}) # {}
            /\ grouped =>
                  /\ [n \in DOMAIN toc |-> TocEntry(toc[n])] = ExpectedToc(md.val, 1)
                  /\ [n \in DOMAIN sections |-> sections[n].file_path]
                        = Flatten([c \in DOMAIN CategoryOrder |-> PathsExpectedIn(md.val, c)])
                  /\ \A i \in DOMAIN md.val :
                        Cardinality({n \in DOMAIN sections :
                                        sections[n].file_path = md.val[i][1]}) = 1
            /\ ~grouped =>
                  [n \in DOMAIN sections |-> sections[n].file_path]
                     = [n \in DOMAIN sums |-> sums[n][1]]

\* a document was rendered from 21 summaries and the mapping of files of all
\* five categories, a path whose directory has tutorial and api among them
C12_Witness ==
    /\ render_call.calls >= 1
    /\ Len(render_call.args.summaries) = 21
    /\ render_call.args.markdown_files.some
    /\ HasKey(render_call.args.markdown_files.val, P_tut_api_md)
    /\ Cardinality(BlocksOfKind(render_call.html1, {"toc_category"})) = 5

\* the headings of the gallery, and the words that send an image under the
\* first and under the second, in any case, anywhere in its path
GalleryHeadings == <<"Architecture & Diagrams", "Screenshots & Demos", "Other Images">>

GalleryWords ==
    <<{<<"a","r","c","h","i","t","e","c","t","u","r","e">>, <<"d","i","a","g","r","a","m">>, <<"f","l","o","w">>, <<"d","e","s","i","g","n">>},
      {<<"s","c","r","e","e","n","s","h","o","t">>, <<"s","c","r","e","e","n">>, <<"d","e","m","o">>}>>

\* the position of the bucket an image belongs to: the first whose words its
\* path holds, else the last
ExpectedBucket(img_path) ==
    IF \E w \in GalleryWords[1] : Contains(Lower(img_path), w) THEN 1
    ELSE IF \E w \in GalleryWords[2] : Contains(Lower(img_path), w) THEN 2
    ELSE Len(GalleryHeadings)

\* the gallery the buckets at positions b.. are expected to give: a heading
\* and the images of the bucket in the order of the list, or nothing
RECURSIVE ExpectedGallery(_, _)
ExpectedGallery(images, b) ==
    IF b > Len(GalleryHeadings) THEN <<>>
    ELSE LET mine == SelectSeq(images, LAMBDA img : ExpectedBucket(img) = b)
         IN  (IF mine = <<>> THEN <<>>
              ELSE <<[k |-> "gallery_category", name |-> GalleryHeadings[b]]>>
                   \o [n \in DOMAIN mine |-> [k |-> "gallery_item", name |-> mine[n]]])
             \o ExpectedGallery(images, b + 1)

\* the gallery of a document: its opening, its headings and its items, in order
GalleryOf(html) ==
    SelectSeq(html, LAMBDA b : b.k \in {"gallery", "gallery_category", "gallery_item"})

GalleryEntry(b) ==
    IF b.k = "gallery_category" THEN [k |-> b.k, name |-> b.heading]
    ELSE IF b.k = "gallery_item" THEN [k |-> b.k, name |-> b.img_path]
    ELSE [k |-> b.k, name |-> ""]

\* C13: the gallery of a document has each image of image_files once, under
\* the first of the three headings whose keywords its lower-cased path holds
\* (architecture, diagram, flow, design; then screenshot, screen, demo; else
\* other), in the order of image_files under each heading; a heading is there
\* only with an image under it; and with image_files None or empty the document
\* has no gallery at all.
C13_GalleryBuckets ==
    render_call.calls >= 1 =>
        LET images  == render_call.args.image_files
            gallery == GalleryOf(render_call.html1)
            items   == SelectSeq(gallery, LAMBDA b : b.k = "gallery_item")
        IN  IF ~images.some \/ images.val = <<>>
            THEN gallery = <<>>
            ELSE /\ [n \in DOMAIN gallery |-> GalleryEntry(gallery[n])]
                       = <<[k |-> "gallery", name |-> ""]>> \o ExpectedGallery(images.val, 1)
                 /\ \A i \in DOMAIN images.val :
                       Cardinality({n \in DOMAIN items : items[n].img_path = images.val[i]}) = 1
                 /\ Len(items) = Len(images.val)

\* a gallery was rendered from a list that has the image with a keyword of
\* both lists after an image of the second bucket
C13_Witness ==
    /\ render_call.calls >= 1
    /\ render_call.args.image_files = Some(<<I_demo, I_screen_diagram>>)
    /\ Len(GalleryOf(render_call.html1)) = 5

\* C18: in the document generate_onboarding_html returns, the number of
\* sections the table of contents announces is the number of file sections
\* and the number of links, whatever the summaries and markdown_files.
C18_CountEqualsSections ==
    render_call.calls >= 1 =>
        LET html   == render_call.html1
            counts == BlocksInOrder(html, "toc_summary")
        IN  /\ Len(counts) = 1
            /\ counts[1].count = Len(render_call.args.summaries)
            /\ counts[1].count = Len(BlocksInOrder(html, "section"))
            /\ counts[1].count = Len(BlocksInOrder(html, "toc_link"))

\* the URLs a document points to: the file link of each section, the link of
\* each reference paragraph that has one, and the source of each image
UrlsOf(html) ==
    {html[n].file_url : n \in BlocksOfKind(html, {"section"})}
    \cup UNION {{html[n].body[m].href : m \in {q \in DOMAIN html[n].body :
                                                  html[n].body[q].href # NoUrl}} :
                n \in BlocksOfKind(html, {"section"})}
    \cup {html[n].img_url : n \in BlocksOfKind(html, {"gallery_item"})}

\* C19: every file link and every image URL of the document generate_onboarding_html
\* returns has the branch of repo_meta, the one the cover shows.
C19_LinksUseRepoBranch ==
    render_call.calls >= 1 =>
        /\ \A u \in UrlsOf(render_call.html1) : u.branch = render_call.args.repo_meta.branch
        /\ \A n \in BlocksOfKind(render_call.html1, {"cover"}) :
              render_call.html1[n].branch = render_call.args.repo_meta.branch
-----------------------------------------------------------------------------
(* app.py: the callbacks of the three buttons, each run to its return *)

\* what st.error writes on the page
EnterUrlMessage     == "Please enter a repository URL"
NoFilesMessage      == "No markdown files to summarize. Please fetch documentation first."
NoSummariesMessage  == "No summaries available. Please summarize first."
PdfStatusMessage    == "PDF generation failed (Status: 500)"
PdfResponseMessage  == "Response: Internal Server Error"
PdfTimeoutMessage   == "PDF generation timed out. The document may be too large."
PdfRefusedMessage   == "Cannot connect to .NET PDF API. Make sure it's running on localhost:5165"
NoneSubscriptMessage == "Error: 'NoneType' object is not subscriptable"

\* the record of a callback that ran: how it ended, the requests it sent, the
\* errors it wrote on the page, and what the session has achieved so far
Ran(op, outcome, calls, errors, achieved) ==
    [op |-> op, outcome |-> outcome, calls |-> calls, errors |-> errors,
     done |-> last.done \cup achieved]

\* the except clause of do_fetch as it would be if it also dropped the summaries
FetchFailure_DropsSummaries(error, calls) ==
    /\ fetch_error' = error
    /\ markdown_files' = None
    /\ image_files' = None
    /\ repo_meta' = None
    /\ summaries' = None
    /\ last' = Ran("do_fetch", "raised", calls, <<>>, {})
    /\ UNCHANGED <<summary_error, html_content, pdf_content>>

\* what the except clause of do_fetch leaves in the session
FetchFailure(error, calls) ==
    /\ fetch_error' = error
    /\ markdown_files' = None
    /\ image_files' = None
    /\ repo_meta' = None
    /\ last' = Ran("do_fetch", "raised", calls, <<>>, {})
    /\ UNCHANGED <<summaries, summary_error, html_content, pdf_content>>

\* what the try block of do_fetch leaves in the session
FetchSuccess(result) ==
    /\ markdown_files' = Some(result.markdown_files)
    /\ image_files' = Some(result.image_files)
    /\ repo_meta' = Some([repo |-> result.repo, owner |-> result.owner,
                          branch |-> result.branch])
    /\ fetch_error' = NoMessage
    /\ last' = Ran("do_fetch", "returned", result.calls, <<>>, {"fetch"})
    /\ UNCHANGED <<summaries, summary_error, html_content, pdf_content>>

do_fetch ==
    /\ \E repo_input \in RepoInputs :
          IF ~Truthy(repo_input)
          THEN /\ last' = Ran("do_fetch", "no_input", <<>>, <<EnterUrlMessage>>, {})
               /\ UNCHANGED <<markdown_files, image_files, repo_meta, summaries, fetch_error,
                              summary_error, html_content, pdf_content>>
          ELSE \E net \in Networks(repo_input.val, SessionBranchResponses,
                                   SessionTreeResponses, SessionRawResponses) :
                  LET result == fetch_repository_docs(repo_input.val, net)
                  IN  IF result.raised
                      THEN FetchFailure(result.error, result.calls)
                      ELSE FetchSuccess(result)
    /\ UNCHANGED <<fetch_call, sm, render_call>>

\* the test of do_summarize as it would be if it were the test of its button
NothingToSummarize_OnlyNone == ~markdown_files.some

\* if not st.session_state["markdown_files"]
NothingToSummarize == ~Truthy(markdown_files)

do_summarize ==
    /\ IF NothingToSummarize
       THEN /\ last' = Ran("do_summarize", "no_files", <<>>, <<NoFilesMessage>>, {})
            /\ UNCHANGED <<markdown_files, image_files, repo_meta, summaries, fetch_error,
                           summary_error, html_content, pdf_content>>
       ELSE \E has_key \in BOOLEAN :
              IF ~has_key
              THEN /\ summaries' = None
                   /\ summary_error' = MissingKeyMessage
                   /\ last' = Ran("do_summarize", "raised", <<>>, <<>>, {})
                   /\ UNCHANGED <<markdown_files, image_files, repo_meta, fetch_error,
                                  html_content, pdf_content>>
              ELSE \E oracle \in Answers(Len(markdown_files.val)) :
                      /\ summary_error' = NoMessage
                      /\ summaries' = Some(summarize_markdown_files(markdown_files.val,
                                                                    image_files, oracle))
                      /\ last' = Ran("do_summarize", "returned",
                                     RunSummCalls(SummStart(markdown_files.val, image_files),
                                                  oracle),
                                     <<>>, {"summarize"})
                      /\ UNCHANGED <<markdown_files, image_files, repo_meta, fetch_error,
                                     html_content, pdf_content>>
    /\ UNCHANGED <<fetch_call, sm, render_call>>

\* the POST to the PDF service, by what became of it
PdfCall(response) ==
    IF response \in {"timeout", "refused"}
    THEN NetCall("pdf_generate", <<>>, response, 0, <<>>)
    ELSE NetCall("pdf_generate", <<>>, "ok", IF response = "200" THEN 200 ELSE 500, <<>>)

\* what do_generate_html writes on the page after the POST
PdfErrors(response) ==
    IF response = "200" THEN <<>>
    ELSE IF response = "timeout" THEN <<PdfTimeoutMessage>>
    ELSE IF response = "refused" THEN <<PdfRefusedMessage>>
    ELSE <<PdfStatusMessage, PdfResponseMessage>>

\* pdf_content as it would be if a failed POST cleared it
PdfAfter_ClearedOnFailure(response, html) ==
    IF response = "200" THEN PdfOf(html) ELSE NoPdf

\* pdf_content after the POST: assigned on a 200 response only
PdfAfter(response, html) ==
    IF response = "200" THEN PdfOf(html) ELSE pdf_content

do_generate_html ==
    /\ IF ~Truthy(summaries)
       THEN /\ last' = Ran("do_generate_html", "no_summaries", <<>>, <<NoSummariesMessage>>, {})
            /\ UNCHANGED <<markdown_files, image_files, repo_meta, summaries, fetch_error,
                           summary_error, html_content, pdf_content>>
       ELSE IF ~repo_meta.some
       THEN /\ last' = Ran("do_generate_html", "raised", <<>>, <<NoneSubscriptMessage>>, {})
            /\ UNCHANGED <<markdown_files, image_files, repo_meta, summaries, fetch_error,
                           summary_error, html_content, pdf_content>>
       ELSE \E now \in SessionClocks, response \in PdfResponses :
              LET html == generate_onboarding_html(summaries.val, repo_meta.val, "Riddhi Shah",
                                                   "Bazel Inc.", markdown_files, image_files, now)
              IN  /\ html_content' = Some(html)
                  /\ pdf_content' = PdfAfter(response, html)
                  /\ last' = Ran("do_generate_html", response, <<PdfCall(response)>>,
                                 PdfErrors(response),
                                 IF response = "200" THEN {"html", "pdf"} ELSE {"html"})
                  /\ UNCHANGED <<markdown_files, image_files, repo_meta, summaries, fetch_error,
                                 summary_error>>
    /\ UNCHANGED <<fetch_call, sm, render_call>>

Init ==
    /\ SessionInit
    /\ fetch_call = FetchIdle
    /\ sm = SummIdle
    /\ render_call = RenderIdle

Next == do_fetch \/ do_summarize \/ do_generate_html

Spec == Init /\ [][Next]_vars

-----------------------------------------------------------------------------
(* Claims on the session *)

\* C8: in every state of the session, summaries being set, each of its paths
\* is a key of the markdown_files the session holds.
C8_SummariesAreOfFetchedFiles ==
    summaries.some =>
        /\ markdown_files.some
        /\ DictKeys(summaries.val) \subseteq DictKeys(markdown_files.val)

\* the requests of a kind among the calls of a callback
CallsOf(calls, op) == {n \in DOMAIN calls : calls[n].op = op}

\* C9: a do_fetch that fails leaves the message of the failure in fetch_error,
\* has sent each API request at most once, the one that failed being the last,
\* and leaves summaries, summary_error, html_content and pdf_content as they were.
C9_FetchFailureTouchesFetchOnly ==
    [][ (last'.op = "do_fetch" /\ last'.outcome = "raised") =>
            /\ fetch_error' = IF last'.calls = <<>> THEN InvalidUrlMessage ELSE HttpErrorMessage
            /\ Cardinality(CallsOf(last'.calls, "default_branch")) <= 1
            /\ Cardinality(CallsOf(last'.calls, "tree")) <= 1
            /\ \A n \in DOMAIN last'.calls :
                  last'.calls[n].kind # "ok" => n = Len(last'.calls)
            /\ last'.calls # <<>> => last'.calls[Len(last'.calls)].kind # "ok"
            /\ summaries' = summaries
            /\ summary_error' = summary_error
            /\ html_content' = html_content
            /\ pdf_content' = pdf_content ]_vars

\* the tree listing failed in a session that holds summaries, a document and a PDF
C9_Witness ==
    /\ last.op = "do_fetch" /\ last.outcome = "raised"
    /\ Len(last.calls) = 2
    /\ summaries.some /\ html_content.some /\ pdf_content.some
    /\ fetch_error = HttpErrorMessage

\* C14: a do_generate_html whose POST to the PDF service timed out, was refused
\* or was answered another status than 200 has sent that POST once and nothing
\* else, has written the error of that kind of failure on the page, the three
\* kinds having different errors, has stored the document it generated in
\* html_content, and has left pdf_content as it was.
C14_PdfFailureReportedOnce ==
    [][ (last'.op = "do_generate_html" /\ last'.outcome \in {"timeout", "refused", "500"}) =>
            /\ Cardinality(CallsOf(last'.calls, "pdf_generate")) = 1
            /\ Len(last'.calls) = 1
            /\ last'.calls[1].kind = (IF last'.outcome = "500" THEN "ok" ELSE last'.outcome)
            /\ last'.outcome = "500" => last'.calls[1].status # 200
            /\ last'.errors # <<>>
            /\ last'.errors[1] =
                  (CASE last'.outcome = "timeout" ->
                          "PDF generation timed out. The document may be too large."
                     [] last'.outcome = "refused" ->
                          "Cannot connect to .NET PDF API. Make sure it's running on localhost:5165"
                     [] last'.outcome = "500" -> "PDF generation failed (Status: 500)")
            /\ \E now \in SessionClocks :
                  html_content' = Some(generate_onboarding_html(summaries.val, repo_meta.val,
                                          "Riddhi Shah", "Bazel Inc.", markdown_files,
                                          image_files, now))
            /\ pdf_content' = pdf_content ]_vars

\* the PDF service was not reachable for a document other than the one whose
\* PDF the session holds
C14_Witness ==
    /\ last.op = "do_generate_html" /\ last.outcome = "refused"
    /\ pdf_content.some /\ html_content.some
    /\ pdf_content.made_from # html_content.val

\* the session variables, as one value
Session ==
    <<markdown_files, image_files, repo_meta, summaries, fetch_error, summary_error,
      html_content, pdf_content>>

\* C15: a do_summarize run while markdown_files is None or empty, and a
\* do_generate_html run while summaries is None or empty, change no session
\* variable and send no request; and in every state, summaries is set only if
\* a fetch has succeeded, html_content only if a summarization has succeeded, and
\* pdf_content only if a document has been generated.
C15_StepsRunForward ==
    /\ [][ /\ (last'.op = "do_summarize" /\ ~Truthy(markdown_files)) =>
                (Session' = Session /\ last'.calls = <<>>)
           /\ (last'.op = "do_generate_html" /\ ~Truthy(summaries)) =>
                (Session' = Session /\ last'.calls = <<>>) ]_vars
    /\ [](/\ summaries.some => "fetch" \in last.done
          /\ html_content.some => {"fetch", "summarize"} \subseteq last.done
          /\ pdf_content.some => {"fetch", "summarize", "html"} \subseteq last.done)

\* do_summarize was run on the empty mapping of a repository without Markdown
\* files, in a session that already held summaries and a document
C15_Witness ==
    /\ last.op = "do_summarize" /\ last.outcome = "no_files"
    /\ markdown_files = Some(<<>>)
    /\ summaries.some /\ html_content.some

\* C16: in every state of the session, html_content being set, repo_meta is
\* set, and pdf_content being set, repo_meta is set: the download buttons can
\* read repo_meta['repo'].
C16_DownloadsHaveRepoMeta ==
    /\ Truthy(html_content) => repo_meta.some
    /\ pdf_content.some => repo_meta.some

\* C17: in every state of the session, pdf_content being set, it is the PDF
\* the service made from the document html_content holds.
C17_PdfIsOfCurrentHtml ==
    pdf_content.some => (html_content.some /\ pdf_content.made_from = html_content.val)

====
